---- MODULE Spec2Model ----
(***************************************************************************)
(* Model of pyUnfoldedCircleRemote/remote.py: the Remote session object,   *)
(* its Activity handles, and the device they talk to over HTTP.            *)
(*                                                                         *)
(* Every coroutine of the library is one action: the requests it issues    *)
(* are logged in reqs, how it ended (the value returned or the exception   *)
(* raised) is recorded in last.  The device is the environment: it picks   *)
(* the status and the kind of body of every response.                      *)
(***************************************************************************)
EXTENDS Integers, Sequences, FiniteSets, TLC

VARIABLES
    apikey,        \* Remote.apikey ("None" when unset)
    pin,           \* Remote.pin ("None" when unset)
    activities,    \* Remote.activities: sequence of Activity objects
    _remotes,      \* Remote._remotes
    _docks,        \* Remote._docks
    _ir_codesets,  \* Remote._ir_codesets
    _ir_custom,    \* Remote._ir_custom
    fields,        \* the other attributes of Remote, by name
    tasks,         \* the sub-calls of update(): where each one is
    group,         \* the gather of update() and the loop that follows it
    inflight,      \* turn_on and turn_off calls awaiting their response
    browse,        \* discover_devices: where it is
    listener,      \* discover_devices: its DeviceListener
    announced,     \* the announcements zeroconf delivered to the listener
    remote_group,  \* the RemoteGroup discover_devices returned
    srv,           \* the device's activities: entity_id -> state, or "absent"
    reqs,          \* HTTP requests issued by the last operation, in order
    last           \* the last operation: its name, inputs and outcome

vars ==
    <<apikey, pin, activities, _remotes, _docks, _ir_codesets, _ir_custom,
      fields, tasks, group, inflight, browse, listener, announced, remote_group, srv, reqs,
      last>>

\* what no operation but discover_devices touches
discovering == <<browse, listener, announced, remote_group>>

\* what no operation but update() touches
gathering == <<tasks, group>>

session ==
    <<apikey, pin, activities, _remotes, _docks, _ir_codesets, _ir_custom,
      fields, gathering>>

----------------------------------------------------------------------------
(* Bounds of the model *)

\* longest list of Activity objects explored
MaxActivities == 1

\* longest lists of remotes, of codesets and of docks explored
MaxRemotes == 1
MaxCodesets == 1
MaxDocks == 2

\* most announcements delivered during one browse window
MaxAnnouncements == 2
MaxInFlight == 2
MaxListed == 2

----------------------------------------------------------------------------
(* Values *)

None == "None"

SYSTEM_COMMANDS ==
    {"STANDBY", "REBOOT", "POWER_OFF", "RESTART", "RESTART_UI", "RESTART_CORE"}

\* entity ids the device may hold, and the states it reports for them
EntityIds == {"a1", "a2"}
ActivityStates == {"ON", "OFF"}

\* statuses the device answers with
StatusCodes == {200, 304, 500}

\* kind of body a response carries: "api" is the JSON document the endpoint
\* is documented to send (for an error, an object with code and message),
\* "json" is some other JSON document, "text" is no JSON at all
BodyKinds == {"api", "json", "text"}

Responses == [status : StatusCodes, body : BodyKinds]

\* a response that is no error for response.ok and yet carries the device's
\* error document, an object with code and message
NotModified == [status |-> 304, body |-> "error"]

\* aiohttp ClientResponse.ok
ok(response) == response.status < 400

----------------------------------------------------------------------------
(* HTTP helpers of Remote *)

AUTH_APIKEY_NAME == "pyUnfoldedCircle"
AUTH_USERNAME == "web-configurator"

\* `if self.apikey:`, `if self.pin:`: None and the empty string are false
Truthy(x) == x \notin {None, ""}

\* Remote.client() as it would be if the PIN were tried first
client_pin_first(k, p) ==
    IF Truthy(p)
    THEN [auth |-> "Basic", bearer |-> None, basic |-> <<AUTH_USERNAME, p>>]
    ELSE IF Truthy(k)
    THEN [auth |-> "Bearer", bearer |-> k, basic |-> <<>>]
    ELSE [auth |-> None, bearer |-> None, basic |-> <<>>]

\* Remote.client(): what the client session is built with, the key of an
\* Authorization: Bearer header or the user and password of BasicAuth; auth
\* is None when client() falls through and returns None
client(k, p) ==
    IF Truthy(k)
    THEN [auth |-> "Bearer", bearer |-> k, basic |-> <<>>]
    ELSE IF Truthy(p)
    THEN [auth |-> "Basic", bearer |-> None, basic |-> <<AUTH_USERNAME, p>>]
    ELSE [auth |-> None, bearer |-> None, basic |-> <<>>]

\* a request as it leaves the client: method, path segments, JSON body
\* (a set of <<key, value>> pairs) and the credentials it carries
Request(method, path, body) ==
    [method |-> method, path |-> path, body |-> body,
     bearer |-> client(apikey, pin).bearer,
     basic |-> client(apikey, pin).basic]

\* Remote.raise_on_error: the exception raised for a response, "none" if it
\* is returned.  An error body that is not JSON fails in response.json(), a
\* JSON error body without code/message fails in the subscript.
raise_on_error(response) ==
    IF ~ok(response)
    THEN CASE response.body \in {"api", "error"} -> "HTTPError"
           [] response.body = "json"            -> "KeyError"
           [] OTHER                             -> "ContentTypeError"
    ELSE "none"

\* HTTPError.status_code of the exception raised (0 when none is)
status_code(response) ==
    IF raise_on_error(response) = "HTTPError" THEN response.status ELSE 0

\* code and message of the device's error documents
ServerErrorCode == "ERROR"
ServerErrorMessage == "Something went wrong"

\* HTTPError.message of the exception raised (<<>> when none is):
\* f"{response.status} Request: {content['code']} Reason: {content['message']}"
error_message(response) ==
    IF raise_on_error(response) = "HTTPError"
    THEN <<ToString(response.status), " Request: ", ServerErrorCode,
           " Reason: ", ServerErrorMessage>>
    ELSE <<>>

\* what a coroutine did: the exception it raised ("none" when it returned),
\* the value it returned (for ApiKeyNotFound, the name the exception
\* carries), the requests it issued
Done(exc, code, ret, requests) ==
    [exc |-> exc, status_code |-> code, ret |-> ret, reqs |-> requests]

\* `async with self.client()` on a session without credential: client()
\* returns None, entering the context fails before any request is built
NoClient == Done("AttributeError", 0, None, <<>>)

HasClient == client(apikey, pin).auth # None

\* response.json() on a response that passed raise_on_error, read as the
\* document the endpoint sends: the exception raised, "none" if it decodes
\* to that document
json_error(response) ==
    CASE response.body = "api"               -> "none"
      [] response.body \in {"json", "error"} -> "KeyError"
      [] OTHER                               -> "ContentTypeError"

----------------------------------------------------------------------------
(* The device *)

EntityOrder == <<"a1", "a2">>

\* body of GET activities: one entry per entity the device holds
ActivitiesList(s) ==
    LET present(e) == s[e] # "absent"
        entry(e) == [entity_id |-> e, state |-> s[e]]
        ids == SelectSeq(EntityOrder, present)
    IN  [i \in 1..Len(ids) |-> entry(ids[i])]

\* the device executes an activity command it answered with success
ServerCommand(s, entity_id, state, response) ==
    IF ok(response) /\ s[entity_id] # "absent"
    THEN [s EXCEPT ![entity_id] = state]
    ELSE s

----------------------------------------------------------------------------
(* Activity *)

\* Activity.__init__
Activity(entry) == [id |-> entry.entity_id, state |-> entry.state]

\* Activity.is_on
is_on(activity) == activity.state = "ON"

CommandRequest(activity, cmd_id) ==
    Request("PUT", <<"entities", activity.id, "command">>,
            {<<"entity_id", activity.id>>, <<"cmd_id", cmd_id>>})

\* turn_on as it would be if the state were left for the next refresh
turn_on_unrecorded(activity, response) ==
    IF ~HasClient THEN [activity |-> activity, done |-> NoClient]
    ELSE LET exc == raise_on_error(response)
             requests == <<CommandRequest(activity, "activity.on")>>
         IN  [activity |-> activity,
              done |-> IF exc # "none"
                       THEN Done(exc, status_code(response), None, requests)
                       ELSE Done("none", 0, None, requests)]

\* Activity.turn_on: the activity afterwards and what the call did
turn_on(activity, response) ==
    IF ~HasClient THEN [activity |-> activity, done |-> NoClient]
    ELSE LET exc == raise_on_error(response)
             requests == <<CommandRequest(activity, "activity.on")>>
         IN  IF exc # "none"
             THEN [activity |-> activity,
                   done |-> Done(exc, status_code(response), None, requests)]
             ELSE [activity |-> [activity EXCEPT !.state = "ON"],
                   done |-> Done("none", 0, None, requests)]

\* turn_off as it would be if the state were set before the response is
\* checked
turn_off_eager(activity, response) ==
    IF ~HasClient THEN [activity |-> activity, done |-> NoClient]
    ELSE LET exc == raise_on_error(response)
             requests == <<CommandRequest(activity, "activity.off")>>
         IN  [activity |-> [activity EXCEPT !.state = "OFF"],
              done |-> IF exc # "none"
                       THEN Done(exc, status_code(response), None, requests)
                       ELSE Done("none", 0, None, requests)]

\* Activity.turn_off
turn_off(activity, response) ==
    IF ~HasClient THEN [activity |-> activity, done |-> NoClient]
    ELSE LET exc == raise_on_error(response)
             requests == <<CommandRequest(activity, "activity.off")>>
         IN  IF exc # "none"
             THEN [activity |-> activity,
                   done |-> Done(exc, status_code(response), None, requests)]
             ELSE [activity |-> [activity EXCEPT !.state = "OFF"],
                   done |-> Done("none", 0, None, requests)]

\* a call of turn_on or turn_off on the i-th Activity that has sent its
\* request: the response it awaits, the place of its request among those
\* the device has answered, and whether the call has resumed
command_sent(i, cmd) ==
    [i |-> i, cmd |-> cmd, response |-> None, served |-> 0, finished |-> FALSE]

CommandState(cmd) == IF cmd = "turn_on" THEN "ON" ELSE "OFF"
CommandId(cmd) == IF cmd = "turn_on" THEN "activity.on" ELSE "activity.off"

\* how many of the calls the device has answered, and how many have resumed
Served(calls) == Cardinality({k \in DOMAIN calls : calls[k].served # 0})
Finished(calls) == Cardinality({k \in DOMAIN calls : calls[k].finished})

\* the call resuming as it would be if only the call the device answered
\* last recorded its state
complete_as_served(activity, call) ==
    LET r == IF call.cmd = "turn_on" THEN turn_on(activity, call.response)
             ELSE turn_off(activity, call.response)
    IN  IF call.served = Served(inflight) THEN r
        ELSE [activity |-> activity, done |-> r.done]

\* the call resumes with its response: the rest of turn_on or turn_off,
\* whatever the other calls in flight have done
complete(activity, call) ==
    IF call.cmd = "turn_on" THEN turn_on(activity, call.response)
    ELSE turn_off(activity, call.response)

\* the loop as it would be if it took the first entry without comparing ids
FindState_first(entity_id, listing) ==
    IF listing = <<>> THEN None ELSE listing[1].state

\* the loop of get_activity_state: state of the first entry whose entity_id
\* equals entity_id; falling off the end of the loop returns None
FindState(entity_id, listing) ==
    LET hits == {i \in 1..Len(listing) : listing[i].entity_id = entity_id}
    IN  IF hits = {} THEN None
        ELSE listing[CHOOSE i \in hits : \A j \in hits : i <= j].state

\* get_activity_state as it would be if a missing entity were an error
get_activity_state_strict(entity_id, response, listing) ==
    IF ~HasClient THEN NoClient
    ELSE LET requests == <<Request("GET", <<"activities">>, {})>>
         IN  IF raise_on_error(response) # "none"
             THEN Done(raise_on_error(response), status_code(response), None, requests)
             ELSE IF json_error(response) # "none"
             THEN Done(json_error(response), 0, None, requests)
             ELSE IF FindState(entity_id, listing) = None
             THEN Done("StopIteration", 0, None, requests)
             ELSE Done("none", 0, FindState(entity_id, listing), requests)

\* Remote.get_activity_state
get_activity_state(entity_id, response, listing) ==
    IF ~HasClient THEN NoClient
    ELSE LET requests == <<Request("GET", <<"activities">>, {})>>
         IN  IF raise_on_error(response) # "none"
             THEN Done(raise_on_error(response), status_code(response), None, requests)
             ELSE IF json_error(response) # "none"
             THEN Done(json_error(response), 0, None, requests)
             ELSE Done("none", 0, FindState(entity_id, listing), requests)

\* Activity.update: the state is assigned whatever get_activity_state
\* returned; nothing is assigned when it raised
update_activity(activity, response, listing) ==
    LET done == get_activity_state(activity.id, response, listing)
    IN  [activity |-> IF done.exc = "none"
                      THEN [activity EXCEPT !.state = done.ret]
                      ELSE activity,
         done |-> done]

\* get_activities as it would be if it emptied the list before filling it
get_activities_cleared(response, listing) ==
    IF ~HasClient THEN [activities |-> activities, done |-> NoClient]
    ELSE LET requests == <<Request("GET", <<"activities">>, {})>>
         IN  IF raise_on_error(response) # "none"
             THEN [activities |-> activities,
                   done |-> Done(raise_on_error(response), status_code(response),
                                 None, requests)]
             ELSE IF json_error(response) # "none"
             THEN [activities |-> activities,
                   done |-> Done(json_error(response), 0, None, requests)]
             ELSE [activities |-> [i \in 1..Len(listing) |-> Activity(listing[i])],
                   done |-> Done("none", 0, "activities", requests)]

\* Remote.get_activities: one Activity appended per entry of the response
get_activities(response, listing) ==
    IF ~HasClient THEN [activities |-> activities, done |-> NoClient]
    ELSE LET requests == <<Request("GET", <<"activities">>, {})>>
         IN  IF raise_on_error(response) # "none"
             THEN [activities |-> activities,
                   done |-> Done(raise_on_error(response), status_code(response),
                                 None, requests)]
             ELSE IF json_error(response) # "none"
             THEN [activities |-> activities,
                   done |-> Done(json_error(response), 0, None, requests)]
             ELSE [activities |->
                       activities \o [i \in 1..Len(listing) |-> Activity(listing[i])],
                   done |-> Done("none", 0, "activities", requests)]

----------------------------------------------------------------------------
(* System commands *)

\* post_system_command as it would be without the membership test
post_system_command_unchecked(cmd, response) ==
    IF ~HasClient THEN NoClient
    ELSE LET requests == <<Request("POST", <<"system?cmd=", cmd>>, {})>>
         IN  IF raise_on_error(response) # "none"
             THEN Done(raise_on_error(response), status_code(response), None, requests)
             ELSE IF response.body = "text"
             THEN Done("ContentTypeError", 0, None, requests)
             ELSE Done("none", 0, response.body, requests)

\* Remote.post_system_command
post_system_command(cmd, response) ==
    IF cmd \in SYSTEM_COMMANDS
    THEN IF ~HasClient THEN NoClient
         ELSE LET requests == <<Request("POST", <<"system?cmd=", cmd>>, {})>>
              IN  IF raise_on_error(response) # "none"
                  THEN Done(raise_on_error(response), status_code(response),
                            None, requests)
                  ELSE IF response.body = "text"
                  THEN Done("ContentTypeError", 0, None, requests)
                  ELSE Done("none", 0, response.body, requests)
    ELSE Done("SystemCommandNotFound", 0, None, <<>>)

----------------------------------------------------------------------------
(* IR remotes, codesets and docks *)

\* what the device answers to GET remotes, GET remotes/{id}/ir and
\* GET ir/emitters
ServerRemotes ==
    << [name |-> "tv",  entity_id |-> "r1", enabled |-> TRUE],
       [name |-> "old", entity_id |-> "r2", enabled |-> FALSE] >>

ServerCodesetId(entity_id) == IF entity_id = "r1" THEN "c1" ELSE "c2"

ServerDocks ==
    << [name |-> "Dock1", device_id |-> "d1", active |-> TRUE],
       [name |-> "Dock2", device_id |-> "d2", active |-> FALSE],
       [name |-> "Dock3", device_id |-> "d3", active |-> TRUE] >>

\* Remote.get_remotes: the enabled remotes of the response are appended
get_remotes(response) ==
    IF ~HasClient THEN [remotes |-> _remotes, done |-> NoClient]
    ELSE LET requests == <<Request("GET", <<"remotes">>, {})>>
             enabled(r) == r.enabled
             found == SelectSeq(ServerRemotes, enabled)
         IN  IF raise_on_error(response) # "none"
             THEN [remotes |-> _remotes,
                   done |-> Done(raise_on_error(response), status_code(response),
                                 None, requests)]
             ELSE IF json_error(response) # "none"
             THEN [remotes |-> _remotes,
                   done |-> Done(json_error(response), 0, None, requests)]
             ELSE [remotes |-> _remotes \o
                       [i \in 1..Len(found) |->
                           [name |-> found[i].name, entity_id |-> found[i].entity_id]],
                   done |-> Done("none", 0, "_remotes", requests)]

\* Remote.get_docks: the active docks of the response are appended
get_docks(response) ==
    IF ~HasClient THEN [docks |-> _docks, done |-> NoClient]
    ELSE LET requests == <<Request("GET", <<"ir", "emitters">>, {})>>
             active(d) == d.active
             found == SelectSeq(ServerDocks, active)
         IN  IF raise_on_error(response) # "none"
             THEN [docks |-> _docks,
                   done |-> Done(raise_on_error(response), status_code(response),
                                 None, requests)]
             ELSE IF json_error(response) # "none"
             THEN [docks |-> _docks,
                   done |-> Done(json_error(response), 0, None, requests)]
             ELSE [docks |-> _docks \o
                       [i \in 1..Len(found) |->
                           [name |-> found[i].name, device_id |-> found[i].device_id]],
                   done |-> Done("none", 0, "_docks", requests)]

\* what the device answers to GET ir/codes/custom
ServerCustomCodesets == << [device |-> "amp", device_id |-> "x1"] >>

\* Remote.get_custom_codesets: every code set of the response is appended
get_custom_codesets(response) ==
    IF ~HasClient THEN [custom |-> _ir_custom, done |-> NoClient]
    ELSE LET requests == <<Request("GET", <<"ir", "codes", "custom">>, {})>>
         IN  IF raise_on_error(response) # "none"
             THEN [custom |-> _ir_custom,
                   done |-> Done(raise_on_error(response), status_code(response),
                                 None, requests)]
             ELSE IF json_error(response) # "none"
             THEN [custom |-> _ir_custom,
                   done |-> Done(json_error(response), 0, None, requests)]
             ELSE [custom |-> _ir_custom \o ServerCustomCodesets,
                   done |-> Done("none", 0, "_ir_custom", requests)]

\* Remote.get_remote_codesets: one GET per known remote, in order; the
\* device answers the first k of them with the codeset and the next one
\* with response.  A codeset is appended per answer that decodes; the loop
\* ends at the first answer that raises.
get_remote_codesets(k, response) ==
    IF _remotes = <<>> THEN [codesets |-> _ir_codesets,
                             done |-> Done("none", 0, "_ir_codesets", <<>>)]
    ELSE IF ~HasClient THEN [codesets |-> _ir_codesets, done |-> NoClient]
    ELSE LET get(i) == Request("GET", <<"remotes", _remotes[i].entity_id, "ir">>, {})
             entry(i) == [name |-> _remotes[i].name,
                          device_id |-> IF i = k + 1 /\ response.body # "api"
                                        THEN None
                                        ELSE ServerCodesetId(_remotes[i].entity_id)]
             exc == IF raise_on_error(response) # "none"
                    THEN raise_on_error(response)
                    ELSE IF response.body = "text" THEN "ContentTypeError"
                    ELSE "none"
             n == IF exc = "none" THEN Len(_remotes) ELSE k
             sent == IF exc = "none" THEN Len(_remotes) ELSE k + 1
         IN  [codesets |-> _ir_codesets \o [i \in 1..n |-> entry(i)],
              done |-> Done(exc, status_code(response),
                            IF exc = "none" THEN "_ir_codesets" ELSE None,
                            [i \in 1..sent |-> get(i)])]

\* next(... for x in items if x.name == name ...): index of the first item
\* of that name, 0 when there is none
FirstNamed(items, name) ==
    LET hits == {i \in 1..Len(items) : items[i].name = name}
    IN  IF hits = {} THEN 0 ELSE CHOOSE i \in hits : \A j \in hits : i <= j

\* the command body as it would be if one of device and command sufficed
ir_body_either(device, command, kwargs) ==
    LET has(key) == key \in DOMAIN kwargs
        body_raw == IF has("code") /\ has("format")
                    THEN {<<"code", kwargs["code"]>>, <<"format", kwargs["format"]>>}
                    ELSE {}
        ir_code == FirstNamed(_ir_codesets, device)
    IN  IF device # "" \/ command # ""
        THEN IF ir_code = 0
             THEN [exc |-> "TypeError", body |-> body_raw]
             ELSE [exc |-> "none",
                   body |-> {<<"codeset_id", _ir_codesets[ir_code].device_id>>,
                             <<"cmd_id", command>>}]
        ELSE [exc |-> "InvalidIRFormat", body |-> body_raw]

\* Remote.send_remote_command, the command body (lines 584-597); kwargs is
\* a function from the keyword names supplied to their values.  The first
\* `if` binds body to the raw code; the second `if` rebinds it to the
\* predefined code or, in its else, raises.  The default of next() is the
\* type dict, on which .get("device_id") raises TypeError.
ir_body(device, command, kwargs) ==
    LET has(key) == key \in DOMAIN kwargs
        body_raw == IF has("code") /\ has("format")
                    THEN {<<"code", kwargs["code"]>>, <<"format", kwargs["format"]>>}
                    ELSE {}
        ir_code == FirstNamed(_ir_codesets, device)
    IN  IF device # "" /\ command # ""
        THEN IF ir_code = 0
             THEN [exc |-> "TypeError", body |-> body_raw]
             ELSE [exc |-> "none",
                   body |-> {<<"codeset_id", _ir_codesets[ir_code].device_id>>,
                             <<"cmd_id", command>>}]
        ELSE [exc |-> "InvalidIRFormat", body |-> body_raw]

\* the emitter as it would be if an unknown dock name fell back to the
\* first known dock
ir_emitter_fallback(kwargs) ==
    LET dock == FirstNamed(_docks, kwargs["dock"])
    IN  IF "dock" \in DOMAIN kwargs /\ dock # 0
        THEN [exc |-> "none", type |-> "dict", id |-> _docks[dock].device_id]
        ELSE IF _docks = <<>>
             THEN [exc |-> "IndexError", type |-> "None", id |-> None]
             ELSE [exc |-> "none", type |-> "str", id |-> _docks[1].device_id]

\* the emitter as it would be if the fallback took the last known dock
ir_emitter_last(kwargs) ==
    LET dock == FirstNamed(_docks, kwargs["dock"])
    IN  IF "dock" \in DOMAIN kwargs
        THEN IF dock = 0
             THEN [exc |-> "NoEmitterFound", type |-> "None", id |-> None]
             ELSE [exc |-> "none", type |-> "dict", id |-> _docks[dock].device_id]
        ELSE IF _docks = <<>>
             THEN [exc |-> "IndexError", type |-> "None", id |-> None]
             ELSE [exc |-> "none", type |-> "str", id |-> _docks[Len(_docks)].device_id]

\* Remote.send_remote_command, the emitter (lines 605-614): with a dock
\* keyword the record of the first dock of that name, or None; without it
\* the device_id of the first known dock
ir_emitter(kwargs) ==
    LET dock == FirstNamed(_docks, kwargs["dock"])
    IN  IF "dock" \in DOMAIN kwargs
        THEN IF dock = 0
             THEN [exc |-> "NoEmitterFound", type |-> "None", id |-> None]
             ELSE [exc |-> "none", type |-> "dict", id |-> _docks[dock].device_id]
        ELSE IF _docks = <<>>
             THEN [exc |-> "IndexError", type |-> "None", id |-> None]
             ELSE [exc |-> "none", type |-> "str", id |-> _docks[1].device_id]

\* the merged body as it would be if repeat were always sent
body_merged_repeat(body, repeat, kwargs) ==
    body \cup {<<"repeat", ToString(repeat)>>}
         \cup (IF "port" \in DOMAIN kwargs THEN {<<"port_id", kwargs["port"]>>} ELSE {})

\* Remote.send_remote_command, the merged body (lines 599-603 and 616):
\* {**body, **body_repeat, **body_port}
body_merged(body, repeat, kwargs) ==
    LET body_repeat == IF repeat > 0 THEN {<<"repeat", ToString(repeat)>>} ELSE {}
        body_port == IF "port" \in DOMAIN kwargs
                     THEN {<<"port_id", kwargs["port"]>>}
                     ELSE {}
    IN  body \cup body_repeat \cup body_port

\* Remote.send_remote_command
send_remote_command(device, command, repeat, kwargs, response) ==
    LET base == ir_body(device, command, kwargs)
        emitter == ir_emitter(kwargs)
        requests == <<Request("PUT", <<"ir", "emitters", emitter.id, "send">>,
                              body_merged(base.body, repeat, kwargs))>>
    IN  IF base.exc # "none"
        THEN Done(base.exc, 0, None, <<>>)
        ELSE IF emitter.exc # "none"
        THEN Done(emitter.exc, 0, None, <<>>)
        ELSE IF ~HasClient
        THEN NoClient
        ELSE IF emitter.type # "str"
        THEN \* "ir/emitters/" + emitter + "/send": str + dict
             Done("TypeError", 0, None, <<>>)
        ELSE IF raise_on_error(response) # "none"
        THEN Done(raise_on_error(response), status_code(response), None, requests)
        ELSE IF response.body = "text"
        THEN Done("ContentTypeError", 0, None, requests)
        ELSE \* return response == 200, response being the decoded body
             Done("none", 0, "False", requests)

----------------------------------------------------------------------------
(* API keys and the connection probe *)

\* the key the device issues for POST auth/api_keys
ServerApiKey == "key2"

\* can_connect as it would be if it checked the response like the others
can_connect_checked(status) ==
    LET requests == <<Request("HEAD", <<"activities">>, {})>>
    IN  IF ~HasClient
        THEN NoClient
        ELSE IF status >= 400
        THEN Done("HTTPError", status, None, requests)
        ELSE Done("none", 0, IF status = 200 THEN "True" ELSE "False", requests)

\* Remote.can_connect: HEAD activities, the status alone decides
can_connect(status) ==
    LET requests == <<Request("HEAD", <<"activities">>, {})>>
    IN  IF ~HasClient
        THEN NoClient
        ELSE Done("none", 0, IF status = 200 THEN "True" ELSE "False", requests)

\* Remote.get_api_keys: the key list of the device, keys being what it holds
get_api_keys(response, keys) ==
    LET requests == <<Request("GET", <<"auth", "api_keys">>, {})>>
    IN  IF ~HasClient
        THEN NoClient
        ELSE IF raise_on_error(response) # "none"
        THEN Done(raise_on_error(response), status_code(response), None, requests)
        ELSE IF json_error(response) # "none"
        THEN Done(json_error(response), 0, None, requests)
        ELSE Done("none", 0, keys, requests)

\* Remote.create_api_key as it would be if it returned the key without
\* storing it
create_api_key_unsaved(response) ==
    LET body == {<<"name", AUTH_APIKEY_NAME>>, <<"scopes", <<"admin">>>>}
        requests == <<Request("POST", <<"auth", "api_keys">>, body)>>
    IN  IF ~HasClient
        THEN [apikey |-> apikey, done |-> NoClient]
        ELSE IF raise_on_error(response) # "none"
        THEN [apikey |-> apikey,
              done |-> Done(raise_on_error(response), status_code(response),
                            None, requests)]
        ELSE IF json_error(response) # "none"
        THEN [apikey |-> apikey,
              done |-> Done(json_error(response), 0, None, requests)]
        ELSE [apikey |-> apikey,
              done |-> Done("none", 0, ServerApiKey, requests)]

\* Remote.create_api_key: the session's apikey after the call and what the
\* call did
create_api_key(response) ==
    LET body == {<<"name", AUTH_APIKEY_NAME>>, <<"scopes", <<"admin">>>>}
        requests == <<Request("POST", <<"auth", "api_keys">>, body)>>
    IN  IF ~HasClient
        THEN [apikey |-> apikey, done |-> NoClient]
        ELSE IF raise_on_error(response) # "none"
        THEN [apikey |-> apikey,
              done |-> Done(raise_on_error(response), status_code(response),
                            None, requests)]
        ELSE IF json_error(response) # "none"
        THEN [apikey |-> apikey,
              done |-> Done(json_error(response), 0, None, requests)]
        ELSE \* self.apikey = api_info["api_key"]; return self.apikey
             [apikey |-> ServerApiKey,
              done |-> Done("none", 0, ServerApiKey, requests)]

\* the loop of revoke_api_key as it would be without its break
api_key_id_last(keys, key_name) ==
    LET hits == SelectSeq(keys, LAMBDA key : key.name = key_name)
    IN  IF hits = <<>> THEN None ELSE hits[Len(hits)].key_id

\* the loop of revoke_api_key: the key_id of the first key of that name,
\* None when the loop runs into its else
api_key_id(keys, key_name) ==
    LET hits == SelectSeq(keys, LAMBDA key : key.name = key_name)
    IN  IF hits = <<>> THEN None ELSE hits[1].key_id

\* Remote.revoke_api_key: list the keys, then DELETE the key found
revoke_api_key(key_name, keys, listed, deleted) ==
    LET list == get_api_keys(listed, keys)
        id == api_key_id(keys, key_name)
        requests == list.reqs \o
                    <<Request("DELETE", <<"auth", "api_keys", id>>, {})>>
    IN  IF list.exc # "none"
        THEN list
        ELSE IF id = None
        THEN Done("ApiKeyNotFound", 0, key_name, list.reqs)
        ELSE IF raise_on_error(deleted) # "none"
        THEN Done(raise_on_error(deleted), status_code(deleted), None, requests)
        ELSE Done("none", 0, None, requests)

----------------------------------------------------------------------------
(* Fetches of the device's documents *)

\* the coroutines update() gathers, in the order it lists them
SubCalls ==
    <<"get_remote_battery_information", "get_remote_ambient_light_information",
      "get_remote_update_information", "get_remote_configuration",
      "get_remote_information", "get_stats">>

\* path of the GET each of them sends
FetchPath(call) ==
    CASE call = "get_remote_battery_information"       -> <<"system", "power", "battery">>
      [] call = "get_remote_ambient_light_information" -> <<"system", "sensors", "ambient_light">>
      [] call = "get_remote_update_information"        -> <<"system", "update">>
      [] call = "get_remote_configuration"             -> <<"cfg">>
      [] call = "get_remote_information"               -> <<"system">>
      [] OTHER                                         -> <<"pub", "status">>

\* the documents the device holds
ServerBattery == [capacity |-> 80, status |-> "DISCHARGING", power_supply |-> "False"]
ServerAmbientLight == [intensity |-> 25]
ServerUpdate ==
    [update_in_progress |-> "False", next_check_date |-> "2024-06-01",
     installed_version |-> "1.4.0", update_check_enabled |-> "True",
     available |-> << [channel |-> "STABLE", version |-> "1.5.0",
                       release_notes_url |-> "notes/1.5.0"] >>]
ServerConfiguration == [device |-> [name |-> "Remote Two"]]
ServerInformation ==
    [model_name |-> "Remote Two", model_number |-> "UCR2",
     serial_number |-> "SN1", hw_revision |-> "rev2"]
ServerStats ==
    [memory |-> [total_memory |-> 4194304, available_memory |-> 2097152],
     filesystem |-> [user_data |-> [used |-> 1048576, available |-> 3145728]],
     load_avg |-> [one |-> 1]]

\* the versions the model compares, in the order of Python's str <
VersionOrder == <<"", "1.4.0", "1.5.0">>
VersionLess(a, b) ==
    \E i, j \in 1..Len(VersionOrder) :
        i < j /\ VersionOrder[i] = a /\ VersionOrder[j] = b

\* the loop of get_remote_update_information over information["available"]
RECURSIVE LatestVersion(_, _, _)
LatestVersion(f, available, i) ==
    IF i > Len(available)
    THEN f
    ELSE LET update == available[i]
         IN  IF update.channel \in {"STABLE", "TESTING"}
             THEN IF \/ f._latest_sw_version = ""
                     \/ VersionLess(f._latest_sw_version, update.version)
                  THEN LatestVersion(
                           [f EXCEPT !._release_notes_url = update.release_notes_url,
                                     !._latest_sw_version = update.version],
                           available, i + 1)
                  ELSE LatestVersion(f, available, i + 1)
             ELSE LatestVersion([f EXCEPT !._latest_sw_version = f._sw_version],
                                available, i + 1)

\* what each coroutine does with the document it decoded: the attributes
\* after it and the value it returns
Store(call, f) ==
    CASE call = "get_remote_battery_information" ->
             [fields |-> [f EXCEPT !._battery_level = ServerBattery.capacity,
                                   !._battery_status = ServerBattery.status,
                                   !._is_charging = ServerBattery.power_supply],
              ret |-> ServerBattery]
      [] call = "get_remote_ambient_light_information" ->
             [fields |-> [f EXCEPT !._ambient_light_intensity =
                                       ServerAmbientLight.intensity],
              ret |-> ServerAmbientLight.intensity]
      [] call = "get_remote_update_information" ->
             [fields |->
                  LatestVersion(
                      [f EXCEPT !._update_in_progress = ServerUpdate.update_in_progress,
                                !._next_update_check_date = ServerUpdate.next_check_date,
                                !._sw_version = ServerUpdate.installed_version,
                                !._automatic_updates = ServerUpdate.update_check_enabled,
                                !._available_update = ServerUpdate.available],
                      ServerUpdate.available, 1),
              ret |-> ServerUpdate]
      [] call = "get_remote_configuration" ->
             [fields |-> [f EXCEPT !._name = ServerConfiguration.device.name],
              ret |-> ServerConfiguration]
      [] call = "get_remote_information" ->
             [fields |-> [f EXCEPT !._model_name = ServerInformation.model_name,
                                   !._model_number = ServerInformation.model_number,
                                   !._serial_number = ServerInformation.serial_number,
                                   !._hw_revision = ServerInformation.hw_revision],
              ret |-> ServerInformation]
      [] OTHER ->
             LET memory == ServerStats.memory
                 user_data == ServerStats.filesystem.user_data
             IN  [fields |->
                      [f EXCEPT !._memory_total = memory.total_memory \div 1048576,
                                !._memory_available = memory.available_memory \div 1048576,
                                !._storage_total =
                                    user_data.used + user_data.available \div 1048576,
                                !._storage_available = user_data.available \div 1048576,
                                !._cpu_load = ServerStats.load_avg,
                                !._cpu_load_one = ServerStats.load_avg.one],
                  ret |-> None]

\* what each coroutine does with a JSON object that has none of the keys
\* it reads: subscripts raise KeyError, .get(...).get(...) raises
\* AttributeError on None, and get_remote_information stores four None
Misread(call, f) ==
    CASE call \in {"get_remote_battery_information",
                   "get_remote_ambient_light_information",
                   "get_remote_update_information"} ->
             [fields |-> f, exc |-> "KeyError"]
      [] call = "get_remote_information" ->
             [fields |-> [f EXCEPT !._model_name = None, !._model_number = None,
                                   !._serial_number = None, !._hw_revision = None],
              exc |-> "none"]
      [] OTHER ->
             [fields |-> f, exc |-> "AttributeError"]

\* a fetch as it would be if it stored the document before checking the
\* response
fetch_unchecked(call, f, response) ==
    LET requests == <<Request("GET", FetchPath(call), {})>>
    IN  IF ~HasClient
        THEN [fields |-> f, done |-> NoClient]
        ELSE IF raise_on_error(response) # "none"
        THEN [fields |-> Store(call, f).fields,
              done |-> Done(raise_on_error(response), status_code(response),
                            None, requests)]
        ELSE [fields |-> Store(call, f).fields,
              done |-> Done("none", 0, Store(call, f).ret, requests)]

\* one of the six coroutines on the attributes f: the attributes after it
\* and what it did
fetch(call, f, response) ==
    LET requests == <<Request("GET", FetchPath(call), {})>>
    IN  IF ~HasClient
        THEN [fields |-> f, done |-> NoClient]
        ELSE IF raise_on_error(response) # "none"
        THEN [fields |-> f,
              done |-> Done(raise_on_error(response), status_code(response),
                            None, requests)]
        ELSE IF response.body = "text"
        THEN [fields |-> f, done |-> Done("ContentTypeError", 0, None, requests)]
        ELSE IF response.body = "api"
        THEN [fields |-> Store(call, f).fields,
              done |-> Done("none", 0, Store(call, f).ret, requests)]
        ELSE [fields |-> Misread(call, f).fields,
              done |-> Done(Misread(call, f).exc, 0,
                            IF Misread(call, f).exc = "none"
                            THEN response.body ELSE None,
                            requests)]

----------------------------------------------------------------------------
(* Remote.update *)

Index(call) == CHOOSE c \in 1..Len(SubCalls) : SubCalls[c] = call

\* update() calls gather: every coroutine runs up to its request, or fails
\* at once on a session without client
update_start ==
    IF HasClient
    THEN [tasks |-> [c \in 1..Len(SubCalls) |-> "flight"],
          group |-> [state |-> "pending", exc |-> "none", status_code |-> 0,
                     next |-> 0, late |-> FALSE],
          reqs |-> [c \in 1..Len(SubCalls) |->
                        Request("GET", FetchPath(SubCalls[c]), {})]]
    ELSE [tasks |-> [c \in 1..Len(SubCalls) |-> "failed"],
          group |-> [state |-> "pending", exc |-> NoClient.exc, status_code |-> 0,
                     next |-> 0, late |-> FALSE],
          reqs |-> <<>>]

\* the gather after one of its coroutines ended as done: the first
\* exception is the one update() will see, and the other coroutines are
\* left running; late records that a coroutine returned after update()
\* had raised
gather_done(g, done) ==
    IF done.exc # "none" /\ g.state = "pending" /\ g.exc = "none"
    THEN [g EXCEPT !.exc = done.exc, !.status_code = done.status_code]
    ELSE [g EXCEPT !.late = g.late \/ (g.state = "raised" /\ done.exc = "none")]

\* the coroutines as they would be if the gather cancelled those still
\* running when it raises
gather_raise_cancels(t) ==
    [c \in DOMAIN t |-> IF t[c] = "flight" THEN "cancelled" ELSE t[c]]

\* the coroutines t once the gather has passed the first exception to
\* update(): gather is called without return_exceptions and update() holds
\* no reference to the coroutines, so none of them is cancelled
gather_raise(t) == t

\* `await group` resumes update(): with the first exception, or once every
\* coroutine has returned
GatherRaises == group.state = "pending" /\ group.exc # "none"

\* the gather as it would be if it returned with the first coroutine done
GatherReturns_first ==
    /\ group.state = "pending"
    /\ \E c \in 1..Len(SubCalls) : tasks[c] = "done"

GatherReturns ==
    /\ group.state = "pending"
    /\ \A c \in 1..Len(SubCalls) : tasks[c] = "done"

----------------------------------------------------------------------------
(* URL helpers: strings are sequences of characters *)

StartsWith(s, prefix) ==
    Len(s) >= Len(prefix) /\ SubSeq(s, 1, Len(prefix)) = prefix
EndsWith(s, suffix) ==
    Len(s) >= Len(suffix) /\ SubSeq(s, Len(s) - Len(suffix) + 1, Len(s)) = suffix

\* str.find: the first position from `from` on that holds one of the
\* characters, Len(s) + 1 when none does
Find(s, characters, from) ==
    LET hits == {i \in from..Len(s) : s[i] \in characters}
    IN  IF hits = {} THEN Len(s) + 1
        ELSE CHOOSE i \in hits : \A j \in hits : i <= j

Letters ==
    {"a", "b", "c", "d", "e", "f", "g", "h", "i", "j", "k", "l", "m", "n", "o",
     "p", "q", "r", "s", "t", "u", "v", "w", "x", "y", "z"}
Digits == {"0", "1", "2", "3", "4", "5", "6", "7", "8", "9"}

\* urllib.parse.urlparse on a URL without parameters: the scheme is what
\* precedes the first colon when that is a letter followed by scheme
\* characters; the netloc follows "//" up to the first of / ? #; the
\* fragment and the query are cut off; the rest is the path.  A netloc with
\* an unmatched bracket raises ValueError.
urlparse(uri) ==
    LET colon == Find(uri, {":"}, 1)
        has_scheme ==
            /\ colon > 1
            /\ colon <= Len(uri)
            /\ uri[1] \in Letters
            /\ \A j \in 1..(colon - 1) : uri[j] \in Letters \cup Digits \cup {"+", "-", "."}
        rest == IF has_scheme THEN SubSeq(uri, colon + 1, Len(uri)) ELSE uri
        has_netloc == StartsWith(rest, <<"/", "/">>)
        delim == Find(rest, {"/", "?", "#"}, 3)
        netloc == IF has_netloc THEN SubSeq(rest, 3, delim - 1) ELSE <<>>
        url == IF has_netloc THEN SubSeq(rest, delim, Len(rest)) ELSE rest
        no_fragment == SubSeq(url, 1, Find(url, {"#"}, 1) - 1)
        path == SubSeq(no_fragment, 1, Find(no_fragment, {"?"}, 1) - 1)
        brackets(c) == \E i \in 1..Len(netloc) : netloc[i] = c
    IN  [exc |-> IF brackets("[") # brackets("]") THEN "ValueError" ELSE "none",
         scheme |-> IF has_scheme THEN SubSeq(uri, 1, colon - 1) ELSE <<>>,
         netloc |-> netloc,
         path |-> path]

HTTP == <<"h", "t", "t", "p">>
HTTP_SCHEME == <<"h", "t", "t", "p", ":", "/", "/">>

\* validate_url as it would be if a path of "/" were handled like no path
validate_url_no_path(uri) ==
    LET absolute == IF ~StartsWith(uri, HTTP) THEN HTTP_SCHEME \o uri ELSE uri
        parsed_url == urlparse(absolute)
        schemed == IF parsed_url.scheme = <<>> THEN HTTP_SCHEME \o absolute
                   ELSE absolute
    IN  IF parsed_url.exc # "none"
        THEN [exc |-> parsed_url.exc, uri |-> <<>>]
        ELSE IF parsed_url.path \in {<<>>, <<"/">>}
        THEN [exc |-> "none", uri |-> schemed \o <<"/", "a", "p", "i", "/">>]
        ELSE IF parsed_url.path[Len(parsed_url.path)] # "/"
        THEN [exc |-> "none", uri |-> schemed \o <<"/">>]
        ELSE [exc |-> "none", uri |-> schemed]

\* Remote.validate_url: the URL returned, or the exception of urlparse
validate_url(uri) ==
    LET absolute == IF ~StartsWith(uri, HTTP) THEN HTTP_SCHEME \o uri ELSE uri
        parsed_url == urlparse(absolute)
        schemed == IF parsed_url.scheme = <<>> THEN HTTP_SCHEME \o absolute
                   ELSE absolute
    IN  IF parsed_url.exc # "none"
        THEN [exc |-> parsed_url.exc, uri |-> <<>>]
        ELSE IF parsed_url.path = <<"/">>
        THEN [exc |-> "none", uri |-> schemed \o <<"a", "p", "i", "/">>]
        ELSE IF parsed_url.path = <<>>
        THEN [exc |-> "none", uri |-> schemed \o <<"/", "a", "p", "i", "/">>]
        ELSE IF parsed_url.path[Len(parsed_url.path)] # "/"
        THEN [exc |-> "none", uri |-> schemed \o <<"/">>]
        ELSE [exc |-> "none", uri |-> schemed]

----------------------------------------------------------------------------
(* Discovery *)

DigitChar(d) ==
    CASE d = 0 -> "0" [] d = 1 -> "1" [] d = 2 -> "2" [] d = 3 -> "3"
      [] d = 4 -> "4" [] d = 5 -> "5" [] d = 6 -> "6" [] d = 7 -> "7"
      [] d = 8 -> "8" [] OTHER -> "9"

\* an integer formatted by an f-string
RECURSIVE Decimal(_)
Decimal(n) ==
    IF n < 10 THEN <<DigitChar(n)>>
    ELSE Decimal(n \div 10) \o <<DigitChar(n % 10)>>

\* socket.inet_ntoa on the four bytes of an address
inet_ntoa(address) ==
    Decimal(address[1]) \o <<".">> \o Decimal(address[2]) \o <<".">>
        \o Decimal(address[3]) \o <<".">> \o Decimal(address[4])

\* Remote(api_url, pin, apikey): the attributes of the session built
RemoteObject(api_url, p, k) ==
    [endpoint |-> validate_url(api_url).uri, pin |-> p, apikey |-> k]

\* add_service as it would be if it skipped an endpoint it already holds
add_service_unique(l, info) ==
    LET host == inet_ntoa(info.addresses[1])
        endpoint == HTTP_SCHEME \o host \o <<":">> \o Decimal(info.port)
                        \o <<"/", "a", "p", "i", "/">>
    IN  IF \E i \in 1..Len(l.devices) :
               l.devices[i].endpoint = validate_url(endpoint).uri
        THEN l
        ELSE [l EXCEPT !.devices = Append(@, RemoteObject(endpoint, l.apikey, None))]

\* DeviceListener.add_service: Remote(endpoint, self.apikey) is appended,
\* the listener's apikey being the second positional argument of Remote
add_service(l, info) ==
    LET host == inet_ntoa(info.addresses[1])
        endpoint == HTTP_SCHEME \o host \o <<":">> \o Decimal(info.port)
                        \o <<"/", "a", "p", "i", "/">>
    IN  [l EXCEPT !.devices = Append(@, RemoteObject(endpoint, l.apikey, None))]

----------------------------------------------------------------------------
(* Inputs *)

\* credentials a session is constructed with
ApiKeys == {None, "key1"}
Pins == {None, "1234"}

\* arguments of post_system_command
Commands == SYSTEM_COMMANDS \cup {"BOGUS"}

\* arguments of send_remote_command
Devices == {"", "tv", "radio"}
IRCommands == {"", "power"}
Repeats == {0, 2}
DockNames == {"Dock3", "Dock9"}
KeywordSets == {{}, {"code"}, {"code", "format"}}
KeywordValue(key, dock_name) ==
    CASE key = "code"   -> "0xE0E040BF"
      [] key = "format" -> "HEX"
      [] key = "port"   -> "1"
      [] OTHER          -> dock_name
Kwargs ==
    { [key \in keys |-> KeywordValue(key, dock_name)] :
        keys \in { k \cup d \cup p : k \in KeywordSets, d \in {{}, {"dock"}},
                                     p \in {{}, {"port"}} },
        dock_name \in DockNames }

\* the responses the device may give to an operation: any, when the
\* operation sends a request; a single placeholder when it raises before
\* sending one (its outcome does not depend on the response then)
AnyResponse == [status |-> 200, body |-> "api"]
Replies(requests) == IF requests = <<>> THEN {AnyResponse} ELSE Responses

\* arguments of revoke_api_key and the key lists the device may hold
KeyNames == {AUTH_APIKEY_NAME, "missing"}
KeyLists ==
    { <<>>,
      <<[name |-> "pyunfoldedcircle", key_id |-> "k0"]>>,
      <<[name |-> "other", key_id |-> "k0"],
        [name |-> AUTH_APIKEY_NAME, key_id |-> "k1"],
        [name |-> AUTH_APIKEY_NAME, key_id |-> "k2"]>> }

\* statuses the device may answer the HEAD probe with
ProbeStatuses == {200, 204, 304, 401, 404, 500, 503}

\* what zeroconf resolves the announcements of two devices to
ServiceInfos ==
    { [addresses |-> << <<10, 0, 0, 5>>, <<10, 0, 0, 6>> >>, port |-> 80],
      [addresses |-> << <<192, 168, 1, 20>> >>, port |-> 8080] }

\* arguments of validate_url: a scheme or none, a host, a port or none, a
\* path or none
UrlSchemes == {<<>>, HTTP_SCHEME, <<"h", "t", "t", "p", "s", ":", "/", "/">>}
UrlHosts == {<<"h", "o", "s", "t">>, <<"h", "t", "t", "p", "d">>, <<"[", ":", ":", "1">>}
UrlPorts == {<<>>, <<":", "8", "0", "8", "0">>}
UrlPaths ==
    {<<>>, <<"/">>, <<"/", "a", "p", "i">>, <<"/", "a", "p", "i", "/">>, <<"/", "f", "o", "o">>,
     <<"/", "a", "p", "i", "/", "/">>}
UrlInputs ==
    { scheme \o host \o port \o path :
        scheme \in UrlSchemes, host \in UrlHosts, port \in UrlPorts,
        path \in UrlPaths }

\* the responses the device gives to the requests of update()'s gather
GatherResponses == {[status |-> 200, body |-> "api"], [status |-> 500, body |-> "api"]}

\* turn_on, turn_off and the DELETE of revoke_api_key never read the body
\* of an OK response
ReadsBody(op, response, requests) ==
    \/ ~ok(response)
    \/ /\ op \notin {"turn_on", "turn_off", "can_connect"}
       /\ requests[Len(requests)].method # "DELETE"

\* the record of an operation that ended as done: its name and arguments,
\* the status of the response it received (0 when it sent no request), the
\* body of that response if the operation read it (None otherwise), the
\* exception it raised with its attributes, or the value it returned
Last(op, args, response, done) ==
    [op |-> op, args |-> args,
     status |-> IF done.reqs = <<>> THEN 0 ELSE response.status,
     body |-> IF done.reqs # <<>> /\ ReadsBody(op, response, done.reqs)
              THEN response.body
              ELSE None,
     exc |-> done.exc, status_code |-> done.status_code,
     message |-> IF done.exc = "HTTPError" THEN error_message(response) ELSE <<>>,
     name |-> IF done.exc = "ApiKeyNotFound" THEN done.ret ELSE None,
     ret |-> IF done.exc = "none" THEN done.ret ELSE None]

----------------------------------------------------------------------------
(* Initial state: Remote.__init__ *)

\* the attributes __init__ sets besides the credentials and the lists
InitialFields ==
    [_name |-> "", _model_name |-> "", _model_number |-> "",
     _serial_number |-> "", _hw_revision |-> "", _battery_level |-> 0,
     _battery_status |-> "", _is_charging |-> "bool",
     _ambient_light_intensity |-> 0, _update_in_progress |-> "False",
     _next_update_check_date |-> "", _sw_version |-> "",
     _automatic_updates |-> "bool", _available_update |-> <<>>,
     _latest_sw_version |-> "", _release_notes_url |-> "",
     _memory_total |-> 0, _memory_available |-> 0, _storage_total |-> 0,
     _storage_available |-> 0, _cpu_load |-> <<>>, _cpu_load_one |-> 0]

\* no update() has been called
NotGathering ==
    [state |-> "none", exc |-> "none", status_code |-> 0, next |-> 0,
     late |-> FALSE]

\* everything but the credentials
Fresh ==
    /\ inflight = <<>>
    /\ browse = "none"
    /\ listener = [apikey |-> None, devices |-> <<>>]
    /\ announced = <<>>
    /\ remote_group = <<>>
    /\ fields = InitialFields
    /\ tasks = [i \in 1..Len(SubCalls) |-> "none"]
    /\ group = NotGathering
    /\ activities = <<>>
    /\ _remotes = <<>>
    /\ _docks = <<>>
    /\ _ir_codesets = <<>>
    /\ _ir_custom = <<>>
    /\ srv = [e \in EntityIds |-> IF e = "a1" THEN "OFF" ELSE "ON"]
    /\ reqs = <<>>
    /\ last = [op |-> "__init__", args |-> <<>>, status |-> 0, body |-> None,
               exc |-> "none", status_code |-> 0, message |-> <<>>,
               name |-> None, ret |-> None]

\* a session constructed with an API key, a PIN or both
Init ==
    /\ apikey \in ApiKeys
    /\ pin \in Pins
    /\ apikey # None \/ pin # None
    /\ Fresh

\* a session constructed with an API key and no PIN
InitKey ==
    /\ apikey \in ApiKeys \ {None}
    /\ pin = None
    /\ Fresh

\* a session constructed with any credentials, or with none
InitAny ==
    /\ apikey \in ApiKeys \cup {""}
    /\ pin \in Pins \cup {""}
    /\ Fresh

----------------------------------------------------------------------------
(* Actions *)

\* the device's activities change behind the client's back
ServerChange ==
    \E e \in EntityIds, state \in ActivityStates \cup {"absent"} :
        /\ srv[e] # state
        /\ srv' = [srv EXCEPT ![e] = state]
        /\ reqs' = <<>>
        /\ last' = [op |-> "server", args |-> <<e, state>>, status |-> 0, body |-> None,
                    exc |-> "none", status_code |-> 0, message |-> <<>>,
               name |-> None, ret |-> None]
        /\ UNCHANGED <<session, discovering, inflight>>

\* get_activities on a session that holds at most n Activity objects
\* afterwards
GetActivitiesWithin(n) ==
    \E response \in Responses :
        LET r == get_activities(response, ActivitiesList(srv))
        IN  /\ Len(r.activities) <= n
            /\ activities' = r.activities
            /\ reqs' = r.done.reqs
            /\ last' = Last("get_activities", <<>>, response, r.done)
            /\ UNCHANGED <<apikey, pin, _remotes, _docks, _ir_codesets, srv, fields, gathering, discovering, _ir_custom, inflight>>

GetActivities == GetActivitiesWithin(MaxActivities)

TurnOn ==
    \E i \in 1..Len(activities), response \in Responses :
        LET r == turn_on(activities[i], response)
        IN  /\ activities' = [activities EXCEPT ![i] = r.activity]
            /\ srv' = IF r.done.reqs = <<>> THEN srv
                      ELSE ServerCommand(srv, activities[i].id, "ON", response)
            /\ reqs' = r.done.reqs
            /\ last' = Last("turn_on", <<i>>, response, r.done)
            /\ UNCHANGED <<apikey, pin, _remotes, _docks, _ir_codesets, fields, gathering, discovering, _ir_custom, inflight>>

TurnOff ==
    \E i \in 1..Len(activities), response \in Responses :
        LET r == turn_off(activities[i], response)
        IN  /\ activities' = [activities EXCEPT ![i] = r.activity]
            /\ srv' = IF r.done.reqs = <<>> THEN srv
                      ELSE ServerCommand(srv, activities[i].id, "OFF", response)
            /\ reqs' = r.done.reqs
            /\ last' = Last("turn_off", <<i>>, response, r.done)
            /\ UNCHANGED <<apikey, pin, _remotes, _docks, _ir_codesets, fields, gathering, discovering, _ir_custom, inflight>>

ActivityUpdate ==
    \E i \in 1..Len(activities), response \in Responses :
        LET r == update_activity(activities[i], response, ActivitiesList(srv))
        IN  /\ activities' = [activities EXCEPT ![i] = r.activity]
            /\ reqs' = r.done.reqs
            /\ last' = Last("update", <<i>>, response, r.done)
            /\ UNCHANGED <<apikey, pin, _remotes, _docks, _ir_codesets, srv, fields, gathering, discovering, _ir_custom, inflight>>

PostSystemCommand ==
    \E cmd \in Commands :
    \E response \in Replies(post_system_command(cmd, AnyResponse).reqs) :
        LET done == post_system_command(cmd, response)
        IN  /\ reqs' = done.reqs
            /\ last' = Last("post_system_command", <<cmd>>, response, done)
            /\ UNCHANGED <<session, srv, discovering, inflight>>

\* the calls that fill the lists of IR items, on a session whose list
\* holds at most n items afterwards
GetRemotesWithin(n) ==
    \E response \in Responses :
        LET r == get_remotes(response)
        IN  /\ Len(r.remotes) <= n
            /\ _remotes' = r.remotes
            /\ reqs' = r.done.reqs
            /\ last' = Last("get_remotes", <<>>, response, r.done)
            /\ UNCHANGED <<apikey, pin, activities, _docks, _ir_codesets, srv, fields, gathering, discovering, _ir_custom, inflight>>

GetRemotes == GetRemotesWithin(MaxRemotes)

GetCustomCodesets ==
    \E response \in Responses :
        LET r == get_custom_codesets(response)
        IN  /\ Len(r.custom) <= MaxListed
            /\ _ir_custom' = r.custom
            /\ reqs' = r.done.reqs
            /\ last' = Last("get_custom_codesets", <<>>, response, r.done)
            /\ UNCHANGED <<apikey, pin, activities, _remotes, _docks,
                           _ir_codesets, srv, fields, gathering, discovering,
                           inflight>>

GetRemoteCodesetsWithin(n) ==
    \E k \in (IF _remotes = <<>> THEN {0} ELSE 0..(Len(_remotes) - 1)) :
    \E response \in Replies(get_remote_codesets(k, AnyResponse).done.reqs) :
        LET r == get_remote_codesets(k, response)
        IN  /\ Len(r.codesets) <= n
            /\ _ir_codesets' = r.codesets
            /\ reqs' = r.done.reqs
            /\ last' = Last("get_remote_codesets", <<k>>, response, r.done)
            /\ UNCHANGED <<apikey, pin, activities, _remotes, _docks, srv, fields, gathering, discovering, _ir_custom, inflight>>

GetRemoteCodesets == GetRemoteCodesetsWithin(MaxCodesets)

GetDocksWithin(n) ==
    \E response \in Responses :
        LET r == get_docks(response)
        IN  /\ Len(r.docks) <= n
            /\ _docks' = r.docks
            /\ reqs' = r.done.reqs
            /\ last' = Last("get_docks", <<>>, response, r.done)
            /\ UNCHANGED <<apikey, pin, activities, _remotes, _ir_codesets, srv, fields, gathering, discovering, _ir_custom, inflight>>

GetDocks == GetDocksWithin(MaxDocks)

SendRemoteCommand ==
    \E device \in Devices, command \in IRCommands, repeat \in Repeats,
       kwargs \in Kwargs :
    \E response \in Replies(send_remote_command(device, command, repeat, kwargs,
                                                AnyResponse).reqs) :
        LET done == send_remote_command(device, command, repeat, kwargs, response)
        IN  /\ reqs' = done.reqs
            /\ last' = Last("send_remote_command",
                            [device |-> device, command |-> command,
                             repeat |-> repeat, kwargs |-> kwargs],
                            response, done)
            /\ UNCHANGED <<session, srv, discovering, inflight>>

CanConnect ==
    \E status \in ProbeStatuses :
        LET done == can_connect(status)
        IN  /\ reqs' = done.reqs
            /\ last' = Last("can_connect", <<>>,
                            [status |-> status, body |-> None], done)
            /\ UNCHANGED <<session, srv, discovering, inflight>>

CreateApiKey ==
    \E response \in Replies(IF HasClient THEN <<"POST">> ELSE <<>>) :
        LET r == create_api_key(response)
        IN  /\ apikey' = r.apikey
            /\ reqs' = r.done.reqs
            /\ last' = Last("create_api_key", <<>>, response, r.done)
            /\ UNCHANGED <<pin, activities, _remotes, _docks, _ir_codesets, srv, fields, gathering, discovering, _ir_custom, inflight>>

RevokeApiKey ==
    \E key_name \in KeyNames, keys \in KeyLists,
       listed \in Replies(IF HasClient THEN <<"GET">> ELSE <<>>) :
        \E deleted \in Replies(IF Len(revoke_api_key(key_name, keys, listed,
                                                     AnyResponse).reqs) = 2
                                THEN <<"DELETE">> ELSE <<>>) :
            LET done == revoke_api_key(key_name, keys, listed, deleted)
            IN  /\ reqs' = done.reqs
                /\ last' = Last("revoke_api_key", <<key_name, keys>>,
                                IF Len(done.reqs) = 2 THEN deleted ELSE listed,
                                done)
                /\ UNCHANGED <<session, srv, discovering, inflight>>

\* one of the six fetches, called on its own
Fetch ==
    \E c \in 1..Len(SubCalls) :
        \E response \in Replies(IF HasClient THEN <<"GET">> ELSE <<>>)
                            \cup (IF HasClient THEN {NotModified} ELSE {}) :
            LET r == fetch(SubCalls[c], fields, response)
            IN  /\ fields' = r.fields
                /\ reqs' = r.done.reqs
                /\ last' = Last(SubCalls[c], <<>>, response, r.done)
                /\ UNCHANGED <<apikey, pin, activities, _remotes, _docks,
                               _ir_codesets, gathering, srv, discovering, _ir_custom, inflight>>

\* the record of update() in last: pending while it awaits, then the
\* exception it raised or its return
LastUpdate(exc, code) ==
    [op |-> "Remote.update", args |-> <<>>, status |-> code, body |-> None,
     exc |-> exc, status_code |-> code,
     message |-> IF exc = "HTTPError"
                 THEN error_message([status |-> code, body |-> "api"])
                 ELSE <<>>,
     name |-> None, ret |-> None]

\* update() is called, once on a session
UpdateStart ==
    /\ group.state = "none"
    /\ tasks' = update_start.tasks
    /\ group' = update_start.group
    /\ reqs' = update_start.reqs
    /\ last' = LastUpdate("pending", 0)
    /\ UNCHANGED <<apikey, pin, activities, _remotes, _docks, _ir_codesets,
                   fields, srv, discovering, _ir_custom, inflight>>

\* the response to one of the gathered coroutines arrives and the
\* coroutine runs to its end
SubCallCompletes ==
    \E c \in 1..Len(SubCalls), response \in GatherResponses :
        LET r == fetch(SubCalls[c], fields, response)
        IN  /\ tasks[c] = "flight"
            /\ fields' = r.fields
            /\ tasks' = [tasks EXCEPT ![c] = IF r.done.exc = "none"
                                             THEN "done" ELSE "failed"]
            /\ group' = gather_done(group, r.done)
            /\ UNCHANGED <<apikey, pin, activities, _remotes, _docks,
                           _ir_codesets, srv, reqs, last, discovering, _ir_custom, inflight>>

\* update() resumes from `await group` with the first exception
UpdateRaises ==
    /\ GatherRaises
    /\ group' = [group EXCEPT !.state = "raised"]
    /\ tasks' = gather_raise(tasks)
    /\ last' = LastUpdate(group.exc, group.status_code)
    /\ UNCHANGED <<apikey, pin, activities, _remotes, _docks, _ir_codesets,
                   fields, srv, reqs, discovering, _ir_custom, inflight>>

\* update() resumes from `await group` and enters its loop
UpdateGathered ==
    /\ GatherReturns
    /\ group' = [group EXCEPT !.state = "refresh", !.next = 1]
    /\ UNCHANGED <<apikey, pin, activities, _remotes, _docks, _ir_codesets,
                   fields, tasks, srv, reqs, last, discovering, _ir_custom, inflight>>

\* one turn of `for activity in self.activities: await activity.update()`,
\* or the end of the loop
UpdateRefresh ==
    /\ group.state = "refresh"
    /\ IF group.next > Len(activities)
       THEN /\ group' = [group EXCEPT !.state = "returned"]
            /\ last' = LastUpdate("none", 0)
            /\ UNCHANGED <<activities, reqs, discovering, _ir_custom, inflight>>
       ELSE \E response \in Responses :
                LET r == update_activity(activities[group.next], response,
                                         ActivitiesList(srv))
                IN  /\ activities' = [activities EXCEPT ![group.next] = r.activity]
                    /\ reqs' = reqs \o r.done.reqs
                    /\ IF r.done.exc = "none"
                       THEN /\ group' = [group EXCEPT !.next = group.next + 1]
                            /\ UNCHANGED last
                       ELSE /\ group' = [group EXCEPT !.state = "raised",
                                                      !.exc = r.done.exc,
                                                      !.status_code = r.done.status_code]
                            /\ last' = LastUpdate(r.done.exc, r.done.status_code)
    /\ UNCHANGED <<apikey, pin, _remotes, _docks, _ir_codesets, fields, tasks, srv, discovering, _ir_custom, inflight>>

\* turn_on or turn_off is called on an Activity and runs up to its
\* request, other calls on that Activity being in flight
CommandSend ==
    \E i \in 1..Len(activities), cmd \in {"turn_on", "turn_off"} :
        /\ HasClient
        /\ Len(inflight) < MaxInFlight
        /\ \A k \in DOMAIN inflight : inflight[k].i = i
        /\ inflight' = Append(inflight, command_sent(i, cmd))
        /\ reqs' = <<CommandRequest(activities[i], CommandId(cmd))>>
        /\ UNCHANGED <<session, srv, last, discovering>>

\* the device answers one of the requests in flight, in the order it
\* chooses, and executes the command it answers with success
CommandServed ==
    \E k \in DOMAIN inflight, response \in GatherResponses :
        /\ inflight[k].served = 0
        /\ srv' = ServerCommand(srv, activities[inflight[k].i].id,
                                CommandState(inflight[k].cmd), response)
        /\ inflight' = [inflight EXCEPT ![k].response = response,
                                        ![k].served = Served(inflight) + 1]
        /\ UNCHANGED <<session, reqs, last, discovering>>

\* one of the answered calls resumes and runs to its end
CommandCompletes ==
    \E k \in DOMAIN inflight :
        LET call == inflight[k]
            r == complete(activities[call.i], call)
        IN  /\ call.served # 0
            /\ ~call.finished
            /\ activities' = [activities EXCEPT ![call.i] = r.activity]
            /\ inflight' = [inflight EXCEPT ![k].finished = TRUE]
            /\ reqs' = r.done.reqs
            /\ last' = Last(call.cmd, <<call.i>>, call.response, r.done)
            /\ UNCHANGED <<apikey, pin, _remotes, _docks, _ir_codesets, fields,
                           gathering, srv, discovering, _ir_custom>>

\* validate_url, as Remote.__init__ calls it on the api_url it is given
ValidateUrl ==
    \E uri \in UrlInputs :
        /\ reqs' = <<>>
        /\ last' = [op |-> "validate_url", args |-> <<uri>>, status |-> 0,
                    body |-> None, exc |-> validate_url(uri).exc,
                    status_code |-> 0, message |-> <<>>, name |-> None,
                    ret |-> validate_url(uri).uri]
        /\ UNCHANGED <<session, srv, discovering, inflight>>

\* discover_devices(apikey) is called: the listener is created and the
\* browser started
DiscoverStart ==
    \E k \in ApiKeys :
        /\ browse = "none"
        /\ browse' = "browsing"
        /\ listener' = [apikey |-> k, devices |-> <<>>]
        /\ reqs' = <<>>
        /\ last' = [op |-> "discover_devices", args |-> <<k>>, status |-> 0,
                    body |-> None, exc |-> "pending", status_code |-> 0,
                    message |-> <<>>, name |-> None, ret |-> None]
        /\ UNCHANGED <<session, srv, inflight, announced, remote_group>>

\* zeroconf delivers an announcement to the listener while the browser runs
AddService ==
    \E info \in ServiceInfos :
        /\ browse = "browsing"
        /\ Len(announced) < MaxAnnouncements
        /\ announced' = Append(announced, info)
        /\ listener' = add_service(listener, info)
        /\ UNCHANGED <<session, srv, inflight, browse, remote_group, reqs, last>>

\* time.sleep(ZEROCONF_TIMEOUT) is over and zconf.close() stops the browser
DiscoverClose ==
    /\ browse = "browsing"
    /\ browse' = "closed"
    /\ UNCHANGED <<session, srv, inflight, listener, announced, remote_group,
                   reqs, last>>

\* return RemoteGroup(copy.deepcopy(listener.devices))
DiscoverReturn ==
    /\ browse = "closed"
    /\ browse' = "returned"
    /\ remote_group' = listener.devices
    /\ last' = [last EXCEPT !.exc = "none", !.ret = Len(listener.devices)]
    /\ UNCHANGED <<session, srv, inflight, listener, announced, reqs>>

----------------------------------------------------------------------------
(* Specifications *)

\* activity handles against the device's activities
NextActivity ==
    \/ ServerChange
    \/ GetActivities
    \/ TurnOn
    \/ TurnOff
    \/ ActivityUpdate

\* IR commands against the session's remotes, codesets and docks
NextIR ==
    \/ GetRemotes
    \/ GetRemoteCodesets
    \/ GetDocks
    \/ SendRemoteCommand

Next == NextActivity \/ PostSystemCommand \/ NextIR

\* a session used in every way
Spec == Init /\ [][Next]_vars

\* a session used for its activities only
SpecActivity == Init /\ [][NextActivity]_vars

\* a session used for system commands only
SpecSystem == Init /\ [][PostSystemCommand]_vars

\* a session used for IR commands only
SpecIR == Init /\ [][NextIR]_vars

\* API keys and the probe, on sessions constructed with any credentials
NextAuth ==
    \/ CanConnect
    \/ CreateApiKey
    \/ RevokeApiKey

SpecAuth == InitAny /\ [][NextAuth]_vars

\* a session used for single fetches only
SpecFetch == Init /\ [][Fetch]_vars

\* discovery of the devices on the network
NextDiscover ==
    \/ DiscoverStart
    \/ AddService
    \/ DiscoverClose
    \/ DiscoverReturn

SpecDiscover == Init /\ [][NextDiscover]_vars

\* the URL helper on its inputs
SpecUrl == Init /\ [][ValidateUrl]_vars

\* a session whose activities are listed while the device changes, and
\* that then calls update()
NextSetUp ==
    /\ group.state = "none"
    /\ ServerChange \/ GetActivities

NextUpdate ==
    \/ NextSetUp
    \/ UpdateStart
    \/ SubCallCompletes
    \/ UpdateRaises
    \/ UpdateGathered
    \/ UpdateRefresh

SpecUpdate == InitKey /\ [][NextUpdate]_vars

\* a session whose activities are listed, and on one of whose Activity
\* objects turn_on and turn_off are then called without awaiting one
\* before the next, update() being called once they have all resumed
NextConcurrent ==
    \/ inflight = <<>> /\ activities = <<>> /\ (ServerChange \/ GetActivities)
    \/ CommandSend
    \/ CommandServed
    \/ CommandCompletes
    \/ inflight # <<>> /\ Finished(inflight) = Len(inflight) /\ ActivityUpdate

SpecConcurrent == InitKey /\ [][NextConcurrent]_vars

\* the session holds nothing but Activity objects, remotes and their
\* codesets, custom code sets, docks
OnlyActivities ==
    _remotes = <<>> /\ _docks = <<>> /\ _ir_codesets = <<>> /\ _ir_custom = <<>>
OnlyRemotes == activities = <<>> /\ _docks = <<>> /\ _ir_custom = <<>>
OnlyCustom == activities = <<>> /\ _remotes = <<>> /\ _docks = <<>>
OnlyDocks == activities = <<>> /\ _remotes = <<>> /\ _ir_custom = <<>>

\* a session that fills one of its lists again and again from a device
\* whose activities have stopped changing, and that calls update() on the
\* Activity objects it holds
NextLists ==
    \/ last.op \in {"__init__", "server"} /\ ServerChange
    \/ group.state = "none" /\ OnlyActivities /\ GetActivitiesWithin(MaxListed)
    \/ group.state = "none" /\ OnlyRemotes /\ GetRemotesWithin(MaxListed)
    \/ group.state = "none" /\ OnlyCustom /\ GetCustomCodesets
    \/ group.state = "none" /\ OnlyRemotes /\ GetRemoteCodesetsWithin(MaxListed)
    \/ group.state = "none" /\ OnlyDocks /\ GetDocksWithin(MaxListed)
    \/ OnlyActivities /\ UpdateStart
    \/ SubCallCompletes
    \/ UpdateRaises
    \/ UpdateGathered
    \/ UpdateRefresh

SpecLists == InitKey /\ [][NextLists]_vars

----------------------------------------------------------------------------
(* Properties of the activity handles (SpecActivity) *)

\* the activity the last turn_on, turn_off or update was called on
Target == activities[last.args[1]]

IsCommand == last.op \in {"turn_on", "turn_off"}

\* C1: when turn_on (turn_off) completes, having received an OK response,
\* the local state is "ON" ("OFF"), is_on() is true (false), and the one
\* request the call issued is the PUT to entities/{id}/command.
C1_OptimisticUpdate ==
    (IsCommand /\ last.exc = "none") =>
        /\ last.status < 400
        /\ Target.state = (IF last.op = "turn_on" THEN "ON" ELSE "OFF")
        /\ is_on(Target) = (last.op = "turn_on")
        /\ reqs = << [method |-> "PUT",
                      path |-> <<"entities", Target.id, "command">>,
                      body |-> {<<"entity_id", Target.id>>,
                                <<"cmd_id", IF last.op = "turn_on"
                                            THEN "activity.on"
                                            ELSE "activity.off">>},
                      bearer |-> client(apikey, pin).bearer,
                      basic |-> client(apikey, pin).basic] >>

\* turn_on completed with a 200 response and is_on() is true
C1_Witness ==
    /\ last.op = "turn_on"
    /\ last.exc = "none"
    /\ last.status = 200
    /\ is_on(Target)
    /\ Len(reqs) = 1

C3_UpdateOfRemovedDoesNotRaise ==
    (/\ last.op = "update"
     /\ last.status # 0
     /\ last.status < 400
     /\ last.body = "api"
     /\ srv[Target.id] = "absent") => last.exc = "none"

\* update() returned on an activity the device no longer lists
C3_Witness ==
    /\ last.op = "update"
    /\ last.status = 200
    /\ last.exc = "none"
    /\ srv[Target.id] = "absent"

\* C4 as stated: when the activity's id is no longer in the device's list,
\* update() leaves the local state as it was before the call.
C4_UpdateOfRemovedKeepsState ==
    [][ (/\ last'.op = "update"
         /\ last'.exc = "none"
         /\ srv[activities[last'.args[1]].id] = "absent") =>
            activities' = activities ]_vars

\* C5: a successful update() whose response lists the activity's id leaves
\* the local state equal to the state the device reports for that id.
C5_UpdateTakesServerState ==
    (/\ last.op = "update"
     /\ last.exc = "none"
     /\ srv[Target.id] # "absent") => Target.state = srv[Target.id]

\* update() refreshed the second entry of a list whose first entry is in
\* another state
C5_Witness ==
    /\ last.op = "update"
    /\ last.exc = "none"
    /\ Target.id = "a2"
    /\ srv["a1"] # "absent"
    /\ srv["a2"] # "absent"
    /\ srv["a1"] # srv["a2"]
    /\ Target.state = srv["a2"]

----------------------------------------------------------------------------
(* Properties of system commands (SpecSystem) *)

\* C6: post_system_command(cmd) raises SystemCommandNotFound, with no
\* request issued, exactly when cmd is none of the six commands; for each of
\* the six it issues one POST to system?cmd=<cmd> and, when the response is
\* OK and decodes, returns the decoded body.
C6_SystemCommand ==
    last.op = "post_system_command" =>
        LET cmd == last.args[1]
            valid == cmd \in {"STANDBY", "REBOOT", "POWER_OFF", "RESTART",
                              "RESTART_UI", "RESTART_CORE"}
        IN  /\ (last.exc = "SystemCommandNotFound") <=> ~valid
            /\ ~valid => reqs = <<>>
            /\ valid => reqs = << [method |-> "POST",
                                   path |-> <<"system?cmd=", cmd>>,
                                   body |-> {},
                                   bearer |-> client(apikey, pin).bearer,
                      basic |-> client(apikey, pin).basic] >>
            /\ (valid /\ last.status < 400 /\ last.body # "text") =>
                   (last.exc = "none" /\ last.ret = last.body)

\* a valid command returned its decoded body
C6_Witness ==
    /\ last.op = "post_system_command"
    /\ last.args[1] = "RESTART_UI"
    /\ last.status = 200
    /\ last.exc = "none"
    /\ last.ret = "api"

\* an invalid command was refused
C6_WitnessRefused ==
    /\ last.op = "post_system_command"
    /\ last.exc = "SystemCommandNotFound"
    /\ reqs = <<>>

----------------------------------------------------------------------------
(* Properties of IR commands (SpecIR) *)

IsSend == last.op = "send_remote_command"

\* the call supplied code and format / a non-empty device and command
RawPair == {"code", "format"} \subseteq DOMAIN last.args.kwargs
NamedPair == last.args.device # "" /\ last.args.command # ""

Names(items) == {items[i].name : i \in 1..Len(items)}

\* C7: send_remote_command with neither a code and format pair nor a
\* non-empty device and command pair raises InvalidIRFormat and issues no
\* request, whatever the known docks and codesets and the other arguments.
C7_NeitherPairIsInvalid ==
    (IsSend /\ ~RawPair /\ ~NamedPair) =>
        (last.exc = "InvalidIRFormat" /\ reqs = <<>>)

\* refused with a device but no command, a dock keyword and no known dock
C7_Witness ==
    /\ IsSend
    /\ ~RawPair
    /\ last.args.device = "tv"
    /\ last.args.command = ""
    /\ "dock" \in DOMAIN last.args.kwargs
    /\ _docks = <<>>
    /\ last.exc = "InvalidIRFormat"

\* C8 as stated: a call that supplies code and format, device and command
\* left empty, does not raise InvalidIRFormat and sends a body holding that
\* code and format.
C8_RawPairIsSent ==
    (IsSend /\ RawPair /\ last.args.device = "" /\ last.args.command = "") =>
        /\ last.exc # "InvalidIRFormat"
        /\ reqs # <<>> =>
               {<<"code", last.args.kwargs["code"]>>,
                <<"format", last.args.kwargs["format"]>>} \subseteq reqs[1].body

\* C9: send_remote_command with a device of the known codesets, a command,
\* and a dock name that no known dock has raises NoEmitterFound and issues no
\* request.
C9_UnknownDockIsNoEmitter ==
    (/\ IsSend
     /\ NamedPair
     /\ last.args.device \in Names(_ir_codesets)
     /\ "dock" \in DOMAIN last.args.kwargs
     /\ last.args.kwargs["dock"] \notin Names(_docks)) =>
        (last.exc = "NoEmitterFound" /\ reqs = <<>>)

\* refused for a dock name that none of the known docks has
C9_Witness ==
    /\ IsSend
    /\ NamedPair
    /\ last.args.device \in Names(_ir_codesets)
    /\ "dock" \in DOMAIN last.args.kwargs
    /\ _docks # <<>>
    /\ last.args.kwargs["dock"] \notin Names(_docks)
    /\ last.exc = "NoEmitterFound"

\* C10 as stated: send_remote_command with a device of the known codesets, a
\* command, no dock argument and no known dock fails with NoEmitterFound.
C10_NoDockIsNoEmitter ==
    (/\ IsSend
     /\ NamedPair
     /\ last.args.device \in Names(_ir_codesets)
     /\ "dock" \notin DOMAIN last.args.kwargs
     /\ _docks = <<>>) => last.exc = "NoEmitterFound"

\* the call named a device of the known codesets and a command
KnownDevice == NamedPair /\ last.args.device \in Names(_ir_codesets)

\* C11 as stated: send_remote_command with a device of the known codesets, a
\* command and a dock argument naming a known dock issues the PUT to
\* ir/emitters/{device_id of that dock}/send.
C11_NamedDockIsEmitter ==
    (/\ IsSend
     /\ KnownDevice
     /\ "dock" \in DOMAIN last.args.kwargs
     /\ last.args.kwargs["dock"] \in Names(_docks)) =>
        /\ Len(reqs) = 1
        /\ reqs[1].method = "PUT"
        /\ reqs[1].path =
               <<"ir", "emitters",
                 _docks[FirstNamed(_docks, last.args.kwargs["dock"])].device_id,
                 "send">>

\* C12: send_remote_command with a device of the known codesets, a command,
\* no dock argument and at least one known dock issues the PUT to
\* ir/emitters/{device_id of the first known dock}/send.
C12_FirstDockIsEmitter ==
    (/\ IsSend
     /\ KnownDevice
     /\ "dock" \notin DOMAIN last.args.kwargs
     /\ _docks # <<>>) =>
        /\ Len(reqs) = 1
        /\ reqs[1].method = "PUT"
        /\ reqs[1].path = <<"ir", "emitters", _docks[1].device_id, "send">>

\* sent to the first of two known docks
C12_Witness ==
    /\ IsSend
    /\ KnownDevice
    /\ "dock" \notin DOMAIN last.args.kwargs
    /\ Len(_docks) = 2
    /\ _docks[1].device_id # _docks[2].device_id
    /\ last.status = 200
    /\ reqs[1].path = <<"ir", "emitters", "d1", "send">>

\* C13: the body send_remote_command PUTs is the codeset_id of the first
\* codeset named device and cmd_id = command, with repeat exactly when
\* repeat > 0 and port_id exactly when a port argument is supplied, and
\* nothing else.
C13_MergedBody ==
    (IsSend /\ reqs # <<>>) =>
        LET args == last.args
            codeset == _ir_codesets[FirstNamed(_ir_codesets, args.device)]
        IN  reqs[1].body =
                {<<"codeset_id", codeset.device_id>>, <<"cmd_id", args.command>>}
                \cup (IF args.repeat > 0
                      THEN {<<"repeat", ToString(args.repeat)>>} ELSE {})
                \cup (IF "port" \in DOMAIN args.kwargs
                      THEN {<<"port_id", args.kwargs["port"]>>} ELSE {})

\* a body without repeat and with port_id was sent, code and format having
\* been supplied too
C13_Witness ==
    /\ IsSend
    /\ reqs # <<>>
    /\ last.args.repeat = 0
    /\ RawPair
    /\ reqs[1].body = {<<"codeset_id", "c1">>, <<"cmd_id", "power">>,
                       <<"port_id", "1">>}

----------------------------------------------------------------------------
(* API keys *)

IsRevoke == last.op = "revoke_api_key"

\* revoke_api_key received the key list: its GET was answered OK with the
\* list (a DELETE is only ever sent after that)
Listed ==
    /\ IsRevoke
    /\ reqs # <<>>
    /\ Len(reqs) = 1 => (last.status < 400 /\ last.body = "api")

\* positions of the listed keys whose name is the name asked for
Matches ==
    { i \in 1..Len(last.args[2]) : last.args[2][i].name = last.args[1] }

\* C14: revoke_api_key(name), when the key list the device returned holds no
\* key of exactly that name, raises ApiKeyNotFound carrying the name and
\* issues no DELETE; when it holds one, the DELETE goes to the key_id of the
\* first such key
C14_RevokeFirstMatch ==
    Listed =>
        IF Matches = {}
        THEN /\ last.exc = "ApiKeyNotFound"
             /\ last.name = last.args[1]
             /\ \A i \in 1..Len(reqs) : reqs[i].method # "DELETE"
        ELSE /\ Len(reqs) = 2
             /\ reqs[2].method = "DELETE"
             /\ \E i \in Matches :
                    /\ \A j \in Matches : i <= j
                    /\ reqs[2].path = <<"auth", "api_keys", last.args[2][i].key_id>>

\* two keys of the name were listed and the DELETE was sent
C14_Witness ==
    /\ Listed
    /\ Cardinality(Matches) = 2
    /\ Len(reqs) = 2

\* a list without the name (one name differing in case only) was returned
C14_WitnessAbsent ==
    /\ Listed
    /\ last.args[2] # <<>>
    /\ last.exc = "ApiKeyNotFound"

\* C15: create_api_key POSTs scopes ["admin"]; on an OK response it stores
\* the returned key as the session's apikey and returns it, and the requests
\* issued from then on carry that key as Bearer and no PIN; on an error
\* response the apikey stays as it was
C15_CreateStoresKey ==
    [][ /\ (last'.op = "create_api_key" /\ reqs' # <<>>) =>
               /\ Len(reqs') = 1
               /\ reqs'[1].method = "POST"
               /\ reqs'[1].path = <<"auth", "api_keys">>
               /\ \E name \in {AUTH_APIKEY_NAME} :
                      reqs'[1].body = {<<"name", name>>, <<"scopes", <<"admin">>>>}
        /\ (last'.op = "create_api_key" /\ last'.exc = "none") =>
               /\ last'.status < 400
               /\ Truthy(apikey')
               /\ apikey' = last'.ret
        /\ (last'.op = "create_api_key" /\ last'.status >= 400) =>
               /\ last'.exc # "none"
               /\ apikey' = apikey
        /\ last'.op # "create_api_key" => apikey' = apikey
        /\ Truthy(apikey) =>
               \A i \in 1..Len(reqs') :
                   reqs'[i].bearer = apikey /\ reqs'[i].basic = <<>>
      ]_vars

\* a session with a PIN created a key, and a later request carries that key
C15_Witness ==
    /\ last.op = "can_connect"
    /\ Truthy(pin)
    /\ reqs # <<>>
    /\ reqs[1].bearer = ServerApiKey

\* C16: create_api_key on a session without a PIN fails with
\* AuthenticationError
C16_NoPinIsAuthenticationError ==
    (last.op = "create_api_key" /\ ~Truthy(pin)) =>
        last.exc = "AuthenticationError"

\* C17: every request carries exactly one credential: Bearer <apikey>
\* whenever the apikey is set, also when a PIN is set too, and Basic with
\* the fixed user name and the PIN only when no apikey is set; none carries
\* both or neither
C17_OneCredential ==
    [][ \A i \in 1..Len(reqs') :
            IF Truthy(apikey)
            THEN reqs'[i].bearer = apikey /\ reqs'[i].basic = <<>>
            ELSE /\ reqs'[i].bearer = None
                 /\ Truthy(pin)
                 /\ reqs'[i].basic = <<AUTH_USERNAME, pin>>
      ]_vars

\* a session holding both credentials sent a request with the key
C17_Witness ==
    /\ last.op = "revoke_api_key"
    /\ Truthy(apikey)
    /\ Truthy(pin)
    /\ reqs # <<>>
    /\ reqs[1].bearer = apikey

\* C18: can_connect on a session with a credential returns a boolean for
\* every status of the HEAD probe, true for 200 and false for every 4xx and
\* 5xx, and raises for none of them
C18_CanConnectIsBoolean ==
    (last.op = "can_connect" /\ HasClient) =>
        /\ last.exc = "none"
        /\ last.ret \in {"True", "False"}
        /\ last.status = 200 => last.ret = "True"
        /\ last.status >= 400 => last.ret = "False"
        /\ Len(reqs) = 1 /\ reqs[1].method = "HEAD"

\* the probe was answered 503 and can_connect returned false
C18_Witness ==
    /\ last.op = "can_connect"
    /\ last.status = 503
    /\ last.ret = "False"

----------------------------------------------------------------------------
(* Error responses *)

\* the operations of a session that check their response
CheckedOps ==
    {SubCalls[c] : c \in 1..Len(SubCalls)}
        \cup {"get_activities", "turn_on", "turn_off", "update",
              "post_system_command", "get_remotes", "get_remote_codesets",
              "get_docks", "send_remote_command", "create_api_key",
              "revoke_api_key"}

\* the last response carried the device's error document
HasCodeAndMessage ==
    \/ last.body = "error"
    \/ last.body = "api" /\ last.status >= 400

\* C19: every operation but can_connect that receives a response whose
\* status is not 2xx and whose JSON body has code and message raises
\* HTTPError with that status as status_code and a message that includes
\* the device's message, and returns nothing
C19_NonOkRaisesHTTPError ==
    ( /\ last.op \in CheckedOps
      /\ reqs # <<>>
      /\ ~(last.status >= 200 /\ last.status < 300)
      /\ HasCodeAndMessage ) =>
        /\ last.exc = "HTTPError"
        /\ last.status_code = last.status
        /\ \E i \in 1..Len(last.message) : last.message[i] = ServerErrorMessage
        /\ last.ret = None

----------------------------------------------------------------------------
(* update() *)

Battery == Index("get_remote_battery_information")
AmbientLight == Index("get_remote_ambient_light_information")
UpdateInfo == Index("get_remote_update_information")

\* the battery and ambient-light attributes hold what the device sent
BatteryStored(f) ==
    /\ f._battery_level = ServerBattery.capacity
    /\ f._battery_status = ServerBattery.status
    /\ f._is_charging = ServerBattery.power_supply
AmbientLightStored(f) ==
    f._ambient_light_intensity = ServerAmbientLight.intensity

\* the step in which update() rejects, the update-status GET having been
\* answered 500 and neither the battery nor the ambient-light GET having
\* failed
Rejects500 ==
    /\ group.state = "pending"
    /\ group'.state = "raised"
    /\ tasks[UpdateInfo] = "failed"
    /\ group.status_code = 500
    /\ tasks[Battery] # "failed"
    /\ tasks[AmbientLight] # "failed"

\* C20: when the update-status GET of update() is answered 500 while the
\* battery and ambient-light GETs succeed, update() rejects with that
\* error, and at the moment it rejects the battery and ambient-light
\* attributes hold the values of their responses, in whatever order the
\* responses arrive
C20_RejectsWithFieldsStored ==
    [][ Rejects500 =>
            /\ last'.op = "Remote.update"
            /\ last'.exc = "HTTPError"
            /\ last'.status_code = 500
            /\ BatteryStored(fields')
            /\ AmbientLightStored(fields')
      ]_vars

\* every coroutine of the gather has returned
AllDone == \A c \in 1..Len(SubCalls) : tasks[c] = "done"
SomeFailed == \E c \in 1..Len(SubCalls) : tasks[c] = "failed"

\* update() has been called
Updating == group.state # "none"

C22_UpdateListsActivities ==
    group.state = "returned" =>
        /\ \E i \in 1..Len(reqs) :
               i <= Len(SubCalls) + 1 /\ reqs[i].path = <<"activities">>
        /\ Len(activities) = Len(ActivitiesList(srv))
        /\ \A i \in 1..Len(activities) :
               activities[i].id = ActivitiesList(srv)[i].entity_id

----------------------------------------------------------------------------
(* validate_url *)

IsValidateUrl == last.op = "validate_url"

\* the URL has a doubled slash after its scheme separator
DoubledSlash(uri) ==
    LET separator == Find(uri, {":"}, 1)
    IN  \E i \in (separator + 3)..(Len(uri) - 1) : uri[i] = "/" /\ uri[i + 1] = "/"

\* the URL ends in one api/ segment
OneApiSuffix(uri) ==
    /\ EndsWith(uri, <<"/", "a", "p", "i", "/">>)
    /\ ~EndsWith(uri, <<"/", "a", "p", "i", "/", "a", "p", "i", "/">>)

\* "host", "host/", "host/api" and "http://host:8080"
C23Inputs ==
    {<<"h", "o", "s", "t">>, <<"h", "o", "s", "t", "/">>, <<"h", "o", "s", "t", "/", "a", "p", "i">>,
     <<"h", "t", "t", "p", ":", "/", "/", "h", "o", "s", "t", ":", "8", "0", "8", "0">>}

\* C23: for "host", "host/", "host/api" and "http://host:8080" validate_url
\* returns a URL that ends in exactly one api/ suffix and has no doubled
\* slash after the scheme separator
C23_FourInputs ==
    (IsValidateUrl /\ last.args[1] \in C23Inputs) =>
        /\ last.exc = "none"
        /\ OneApiSuffix(last.ret)
        /\ ~DoubledSlash(last.ret)

\* validate_url was given "host/"
C23_Witness ==
    /\ IsValidateUrl
    /\ last.args[1] = <<"h", "o", "s", "t", "/">>
    /\ last.ret = <<"h", "t", "t", "p", ":", "/", "/", "h", "o", "s", "t", "/", "a", "p", "i", "/">>

\* C24: for every input validate_url does not fail and returns a URL with a
\* scheme (http:// when the input has none) whose path ends in a single
\* api/ segment with its trailing slash
C24_EveryInput ==
    IsValidateUrl =>
        /\ last.exc = "none"
        /\ urlparse(last.ret).scheme # <<>>
        /\ urlparse(last.args[1]).scheme = <<>> => StartsWith(last.ret, HTTP_SCHEME)
        /\ OneApiSuffix(urlparse(last.ret).path)
        /\ ~DoubledSlash(last.ret)

----------------------------------------------------------------------------
(* Discovery *)

\* http://<first advertised address>:<port>/api/ of the two devices
ExpectedEndpoint(info) ==
    IF info.port = 80
    THEN <<"h", "t", "t", "p", ":", "/", "/", "1", "0", ".", "0", ".", "0", ".", "5", ":", "8", "0", "/", "a", "p", "i", "/">>
    ELSE <<"h", "t", "t", "p", ":", "/", "/", "1", "9", "2", ".", "1", "6", "8", ".", "1", ".", "2", "0", ":", "8", "0", "8", "0", "/", "a", "p", "i", "/">>

\* one session per announcement, in the order of arrival
OnePerAnnouncement(sessions) ==
    /\ Len(sessions) = Len(announced)
    /\ \A i \in 1..Len(sessions) :
           sessions[i].endpoint = ExpectedEndpoint(announced[i])

C26_DiscoveredUnauthenticated ==
    \A i \in 1..Len(listener.devices) :
        /\ listener.devices[i].pin = None
        /\ client(listener.devices[i].apikey, listener.devices[i].pin).auth = None

----------------------------------------------------------------------------
(* Single fetches *)

FetchOps == {SubCalls[c] : c \in 1..Len(SubCalls)}

\* C27: a single fetch (information, configuration, battery, ambient light,
\* update information, stats) that receives an error response raises before
\* it writes anything: every attribute of the session and its lists of
\* activities, docks, remotes and codesets are what they were before the
\* call
C27_FailedFetchWritesNothing ==
    [][ (last'.op \in FetchOps /\ reqs' # <<>> /\ last'.status >= 400) =>
            /\ last'.exc # "none"
            /\ last'.ret = None
            /\ fields' = fields
            /\ activities' = activities
            /\ _docks' = _docks
            /\ _remotes' = _remotes
            /\ _ir_codesets' = _ir_codesets
            /\ apikey' = apikey /\ pin' = pin
      ]_vars

\* a fetch failed on a session whose attributes an earlier fetch had set
C27_Witness ==
    /\ last.op = "get_remote_battery_information"
    /\ last.status = 500
    /\ last.exc = "HTTPError"
    /\ fields._name = ServerConfiguration.device.name
    /\ fields._battery_level = InitialFields._battery_level

----------------------------------------------------------------------------
(* Remote.update and the coroutines it leaves running *)

\* update() has raised out of the gather
RaisedInGather == group.state = "raised" /\ group.next = 0

\* C28: update() raising on the first failed gathered call cancels none of
\* the others: the raise leaves every coroutine as it was, and a coroutine
\* still in flight then completes on its own, a successful one writing its
\* attributes of the session after the caller has seen the failure
C28_RaiseCancelsNothing ==
    /\ [][ (group.state = "pending" /\ group'.state = "raised") =>
               (tasks' = tasks /\ fields' = fields) ]_vars
    /\ [][ (RaisedInGather /\ tasks' # tasks) =>
               \E c \in 1..Len(SubCalls) :
                   /\ tasks[c] = "flight"
                   /\ tasks'[c] \in {"done", "failed"}
                   /\ tasks' = [tasks EXCEPT ![c] = tasks'[c]]
                   /\ tasks'[c] = "done" =>
                          /\ fields' = Store(SubCalls[c], fields).fields
                          /\ group'.late
                   /\ tasks'[c] = "failed" => fields' = fields
                   /\ last' = last
                   /\ RaisedInGather'
          ]_vars

\* the battery level was stored after update() had raised HTTPError
C28_Witness ==
    /\ RaisedInGather
    /\ group.late
    /\ last.op = "Remote.update"
    /\ last.exc = "HTTPError"
    /\ tasks[Index("get_remote_battery_information")] = "done"
    /\ tasks[Index("get_remote_information")] = "failed"
    /\ BatteryStored(fields)
    /\ \A c \in 1..Len(SubCalls) :
           c # Index("get_remote_battery_information") => tasks[c] # "done"

----------------------------------------------------------------------------
(* turn_on and turn_off in flight together (SpecConcurrent) *)

\* the k-th call resumes in this step
Resumes(k) ==
    /\ k \in DOMAIN inflight
    /\ ~inflight[k].finished
    /\ inflight'[k].finished

\* C29: with turn_on and turn_off in flight together, every call that
\* resumes with a successful response writes its own state, whatever the
\* device executed last, and the state of an Activity changes in no other
\* step than a resuming call or an update(): the local state is that of
\* the call that resumed last and stays so until the next update()
C29_LastCompletionWins ==
    /\ [][ \A k \in 1..MaxInFlight :
               (Resumes(k) /\ ok(inflight[k].response)) =>
                   /\ activities'[inflight[k].i].state =
                          CommandState(inflight[k].cmd)
                   /\ last'.op = inflight[k].cmd
                   /\ last'.exc = "none"
                   /\ srv' = srv ]_vars
    /\ [][ \A i \in 1..Len(activities) :
               activities'[i].state # activities[i].state =>
                   \/ \E k \in 1..MaxInFlight : Resumes(k) /\ inflight[k].i = i
                   \/ last'.op = "update" /\ last'.args = <<i>>
          ]_vars

\* turn_on then turn_off were executed by the device, both with success,
\* and turn_on resumed last: the Activity is ON, the device's activity is
\* OFF
C29_Witness ==
    /\ Len(inflight) = 2
    /\ inflight[1].i = inflight[2].i
    /\ inflight[1].cmd = "turn_on" /\ inflight[2].cmd = "turn_off"
    /\ inflight[1].served = 1 /\ inflight[2].served = 2
    /\ inflight[1].finished /\ inflight[2].finished
    /\ ok(inflight[1].response) /\ ok(inflight[2].response)
    /\ last.op = "turn_on"
    /\ activities[inflight[1].i].state = "ON"
    /\ srv[activities[inflight[1].i].id] = "OFF"

----------------------------------------------------------------------------
(* The lists of the session (SpecLists) *)

\* the call named op has returned in this step
Returned(op) == last'.op = op /\ last'.exc = "none"

\* list after the step is list before it followed by more
Extends(after, before) ==
    Len(after) >= Len(before) /\ SubSeq(after, 1, Len(before)) = before

Ids(objects) == [i \in 1..Len(objects) |-> objects[i].id]

\* the items of the device that get_remotes and get_docks keep
EnabledRemotes == SelectSeq(ServerRemotes, LAMBDA r : r.enabled)
ActiveDocks == SelectSeq(ServerDocks, LAMBDA d : d.active)

\* C30: the lists of the session only grow: a get_activities, get_docks,
\* get_remotes, get_custom_codesets or get_remote_codesets that returns
\* appends one entry per qualifying item of the response to what the list
\* held, so that k calls of get_activities against n unchanged activities
\* leave k*n Activity objects; the update() that follows sends one
\* GET activities for each of them
C30_ListsOnlyGrow ==
    /\ [][ /\ Extends(Ids(activities'), Ids(activities))
           /\ Extends(_remotes', _remotes)
           /\ Extends(_docks', _docks)
           /\ Extends(_ir_codesets', _ir_codesets)
           /\ Extends(_ir_custom', _ir_custom) ]_vars
    /\ [][ Returned("get_activities") =>
               activities' = activities \o
                   [i \in 1..Len(ActivitiesList(srv)) |->
                       Activity(ActivitiesList(srv)[i])] ]_vars
    /\ [][ Returned("get_remotes") =>
               /\ Len(_remotes') = Len(_remotes) + Len(EnabledRemotes)
               /\ \A i \in 1..Len(EnabledRemotes) :
                      _remotes'[Len(_remotes) + i].entity_id =
                          EnabledRemotes[i].entity_id ]_vars
    /\ [][ Returned("get_docks") =>
               /\ Len(_docks') = Len(_docks) + Len(ActiveDocks)
               /\ \A i \in 1..Len(ActiveDocks) :
                      _docks'[Len(_docks) + i].device_id =
                          ActiveDocks[i].device_id ]_vars
    /\ [][ Returned("get_custom_codesets") =>
               _ir_custom' = _ir_custom \o ServerCustomCodesets ]_vars
    /\ [][ Returned("get_remote_codesets") =>
               /\ Len(_ir_codesets') = Len(_ir_codesets) + Len(_remotes)
               /\ \A i \in 1..Len(_remotes) :
                      _ir_codesets'[Len(_ir_codesets) + i].name =
                          _remotes[i].name ]_vars
    /\ [](group.state = "returned" =>
               /\ Len(reqs) = Len(SubCalls) + Len(activities)
               /\ \A i \in 1..Len(activities) :
                      reqs[Len(SubCalls) + i].path = <<"activities">>)

\* get_activities was called twice against one unchanged activity, and
\* update() has refreshed both Activity objects
C30_Witness ==
    /\ group.state = "returned"
    /\ Len(ActivitiesList(srv)) = 1
    /\ Len(activities) = 2
    /\ activities[1].id = activities[2].id
    /\ Len(reqs) = Len(SubCalls) + 2

====
